---- MODULE Spec2Model ----
(***************************************************************************)
(* Model of packages/turf-nearest-neighbor-analysis/index.js               *)
(*                                                                         *)
(* nearestNeighborAnalysis(dataset, options) is one synchronous function.  *)
(* The state is the caller's heap: the property bags and polygon features  *)
(* that calls receive, mutate and return, plus a log of the calls made.    *)
(* JavaScript numbers are modelled as IEEE values: a finite fixed-point    *)
(* value (Scale units per 1.0), NaN, +Infinity or -Infinity.               *)
(***************************************************************************)
EXTENDS Integers, Sequences, FiniteSets, TLC

VARIABLES
    bags,           \* heap of property-bag objects: bags[id] maps keys to values
    polys,          \* heap of polygon features: polys[id] = [ring, properties]
    calls,          \* log of the calls made so far, oldest first
    searches,       \* (target, points) pairs handed to nearestPoint by the last call
    emptySearch     \* what this build's nearestPoint does on an empty collection

vars == <<bags, polys, calls, searches, emptySearch>>

----------------------------------------------------------------------------
(* Bounds of the exploration *)

\* longest dataset (number of features) explored by SpecCalc
MaxN == 4
\* number of calls in one session explored by Spec
MaxCalls == 2

----------------------------------------------------------------------------
(* JavaScript values *)

\* fixed-point resolution of a finite Number
Scale == 100

Undefined == "undefined"
Null == 0

Fin(v) == [k |-> "fin", v |-> v]
NaN == [k |-> "nan", v |-> 0]
PosInf == [k |-> "inf", v |-> 1]
NegInf == [k |-> "inf", v |-> -1]

IsFinite(a) == a.k = "fin"
IsNaN(a) == a.k = "nan"

Sign(v) == IF v < 0 THEN -1 ELSE 1
Abs(v) == IF v < 0 THEN -v ELSE v

\* truncating integer division, as a rounding of the exact quotient
Quot(a, b) == Sign(a) * Sign(b) * (Abs(a) \div Abs(b))

\* a + b
Add(a, b) ==
    IF IsNaN(a) \/ IsNaN(b) THEN NaN
    ELSE IF a.k = "inf" /\ b.k = "inf" THEN (IF a.v = b.v THEN a ELSE NaN)
    ELSE IF a.k = "inf" THEN a
    ELSE IF b.k = "inf" THEN b
    ELSE Fin(a.v + b.v)

Neg(a) == IF IsNaN(a) THEN NaN ELSE [k |-> a.k, v |-> -a.v]

\* a - b
Sub(a, b) == Add(a, Neg(b))

\* a * b
Mul(a, b) ==
    IF IsNaN(a) \/ IsNaN(b) THEN NaN
    ELSE IF a.k = "inf" \/ b.k = "inf"
         THEN (IF a.v = 0 \/ b.v = 0 THEN NaN
               ELSE IF Sign(a.v) = Sign(b.v) THEN PosInf ELSE NegInf)
    ELSE Fin(Quot(a.v * b.v, Scale))

\* a / b with a zero divisor answered by 0
DivZeroAsZero(a, b) ==
    IF IsNaN(a) \/ IsNaN(b) THEN NaN
    ELSE IF a.k = "inf" /\ b.k = "inf" THEN NaN
    ELSE IF a.k = "inf" THEN (IF Sign(a.v) = Sign(b.v) THEN PosInf ELSE NegInf)
    ELSE IF b.k = "inf" THEN Fin(0)
    ELSE IF b.v = 0 THEN Fin(0)
    ELSE Fin(Quot(a.v * Scale, b.v))

\* a / b (zeros are +0)
Div(a, b) ==
    IF IsNaN(a) \/ IsNaN(b) THEN NaN
    ELSE IF a.k = "inf" /\ b.k = "inf" THEN NaN
    ELSE IF a.k = "inf" THEN (IF Sign(a.v) = Sign(b.v) THEN PosInf ELSE NegInf)
    ELSE IF b.k = "inf" THEN Fin(0)
    ELSE IF b.v = 0 THEN (IF a.v = 0 THEN NaN
                          ELSE IF a.v > 0 THEN PosInf ELSE NegInf)
    ELSE Fin(Quot(a.v * Scale, b.v))

\* the largest r in lo..hi with r * r <= n, by bisection
RECURSIVE ISqrtIn(_, _, _)
ISqrtIn(n, lo, hi) ==
    IF lo >= hi THEN lo
    ELSE LET mid == (lo + hi + 1) \div 2
         IN  IF mid * mid <= n THEN ISqrtIn(n, mid, hi) ELSE ISqrtIn(n, lo, mid - 1)

\* floor of the square root of a natural number
ISqrt(n) == ISqrtIn(n, 0, IF n < 46340 THEN n ELSE 46340)

\* Math.sqrt(a)
Sqrt(a) ==
    IF IsNaN(a) THEN NaN
    ELSE IF a.k = "inf" THEN (IF a.v > 0 THEN PosInf ELSE NaN)
    ELSE IF a.v < 0 THEN NaN
    ELSE Fin(ISqrt(a.v * Scale))

\* an integer as a Number
Num(i) == Fin(i * Scale)

\* a || b on object references (null and undefined are falsy)
OrRef(a, b) == IF a # Null THEN a ELSE b

\* a || b on strings (undefined and "" are falsy)
OrStr(a, b) == IF a # Undefined /\ a # "" THEN a ELSE b

----------------------------------------------------------------------------
(* Outcomes of a call that may throw *)

Ok(v) == [threw |-> FALSE, value |-> v]
Throw(msg) == [threw |-> TRUE, error |-> msg]

----------------------------------------------------------------------------
(* GeoJSON inputs *)

\* the positions dataset geometries are drawn from: the corners of a unit square
Positions == {<<x, y>> : x \in {0, 1}, y \in {0, 1}}

PointGeom(p) == [type |-> "Point", coordinates |-> <<p>>]
LineGeom(p, q) == [type |-> "LineString", coordinates |-> <<p, q>>]

\* the features a dataset is built from: the four corner points, and a line
\* whose centroid is the corner <<1, 0>>
FeaturePool ==
    {PointGeom(p) : p \in Positions} \cup {LineGeom(<<0, 0>>, <<2, 0>>)}

FeatureCollectionOf(fs) == [type |-> "FeatureCollection", features |-> fs]

\* dataset argument null
NullDataset == [type |-> "null", features |-> <<>>]

\* dataset argument that is a bare geometry, not a feature collection
BareGeometry == [type |-> "Point", features |-> <<>>]

SeqsUpTo(S, n) == UNION {[1..k -> S] : k \in 0..n}

\* a ring: the five corners of the rectangle west..east by south..north
Rect(west, south, east, north) ==
    << <<west, south>>, <<east, south>>, <<east, north>>, <<west, north>>,
       <<west, south>> >>

----------------------------------------------------------------------------
(* Collaborators: @turf/meta, centroid, bbox, bbox-polygon, nearest-point, *)
(* distance, area, helpers                                                 *)

\* meta.featureEach(dataset, callback): the features visited, in order
featureEach(dataset) ==
    IF dataset.type = "null" THEN Throw("TypeError: cannot read property of null")
    ELSE IF dataset.type = "FeatureCollection" THEN Ok(dataset.features)
    ELSE Ok(<<>>)

RECURSIVE SumX(_, _)
SumX(coords, i) == IF i = 0 THEN 0 ELSE coords[i][1] + SumX(coords, i - 1)

RECURSIVE SumY(_, _)
SumY(coords, i) == IF i = 0 THEN 0 ELSE coords[i][2] + SumY(coords, i - 1)

\* centroid(feature): the mean of the feature's vertices, as a point
centroid(feature) ==
    LET c == feature.coordinates
        len == Len(c)
    IN  <<(SumX(c, len) * Scale) \div len, (SumY(c, len) * Scale) \div len>>

\* every vertex of the dataset, as coordEach visits them
AllCoords(dataset) ==
    IF dataset.type = "FeatureCollection"
    THEN UNION {{dataset.features[i].coordinates[j] :
                    j \in 1..Len(dataset.features[i].coordinates)} :
                i \in 1..Len(dataset.features)}
    ELSE IF dataset.type = "Point" THEN {<<0, 0>>}
    ELSE {}

MinOf(S) == CHOOSE m \in S : \A x \in S : m <= x
MaxOf(S) == CHOOSE m \in S : \A x \in S : m >= x

\* bbox(dataset) = [west, south, east, north]; no vertex leaves it infinite
bbox(dataset) ==
    LET cs == AllCoords(dataset)
        xs == {c[1] : c \in cs}
        ys == {c[2] : c \in cs}
    IN  IF cs = {} THEN <<PosInf, PosInf, NegInf, NegInf>>
        ELSE <<Num(MinOf(xs)), Num(MinOf(ys)), Num(MaxOf(xs)), Num(MaxOf(ys))>>

\* bboxPolygon(bbox): the ring of the box
bboxPolygon(box) == Rect(box[1], box[2], box[3], box[4])

\* twice the signed area of a ring of finite fixed-point positions
RECURSIVE Shoelace(_, _)
Shoelace(ring, i) ==
    IF i = 0 THEN 0
    ELSE (ring[i][1].v * ring[i + 1][2].v - ring[i + 1][1].v * ring[i][2].v)
         + Shoelace(ring, i - 1)

SquareMetersPerUnit == 1000000

\* area(polygon) in square meters
area(ring) ==
    IF \E i \in 1..Len(ring) : ~IsFinite(ring[i][1]) \/ ~IsFinite(ring[i][2])
    THEN NaN
    ELSE Fin((Abs(Shoelace(ring, Len(ring) - 1)) \div (2 * Scale))
             * SquareMetersPerUnit)

\* helpers.factors, in thousandths of a kilometer-length
LengthFactor(units) ==
    IF units = "kilometers" THEN 1000
    ELSE IF units = "miles" THEN 621
    ELSE 0

\* helpers.areaFactors, in thousandths of a square kilometer
AreaFactor(units) ==
    IF units = "kilometers" THEN 1000
    ELSE IF units = "miles" THEN 386
    ELSE 0

\* a >= 0 (false for NaN)
GeZero(a) == ~IsNaN(a) /\ a.v >= 0

\* helpers.convertArea(area, "meters", finalUnit)
convertArea(a, finalUnit) ==
    IF ~GeZero(a)
    THEN Throw("area must be a positive number")
    ELSE IF AreaFactor(finalUnit) = 0 THEN Throw("invalid final units")
    ELSE IF a = PosInf THEN Ok(PosInf)
    ELSE Ok(Fin(((a.v \div SquareMetersPerUnit) * AreaFactor(finalUnit)) \div 1000))

\* planar length between two centroids, in the coordinate unit
Length(p, q) ==
    ISqrt((p[1] - q[1]) * (p[1] - q[1]) + (p[2] - q[2]) * (p[2] - q[2]))

\* distance(from, to, {units}); `to` is <<>> when the search found no point
distance(from, to, units) ==
    IF to = <<>> THEN Ok(NaN)
    ELSE IF LengthFactor(units) = 0 THEN Throw("units is invalid")
    ELSE Ok(Fin((Length(from, to) * LengthFactor(units)) \div 1000))

\* the index of the first point of `points` closest to target (from index i down)
RECURSIVE BestIndex(_, _, _)
BestIndex(target, points, i) ==
    IF i = 1 THEN 1
    ELSE LET b == BestIndex(target, points, i - 1)
         IN  IF Length(target, points[i]) < Length(target, points[b]) THEN i ELSE b

\* nearestPoint(target, points); on no points the outcome is the build's
nearestPoint(target, points, onEmpty) ==
    IF Len(points) = 0
    THEN (IF onEmpty = "throws" THEN Throw("geojson is required") ELSE Ok(<<>>))
    ELSE Ok(points[BestIndex(target, points, Len(points))])

----------------------------------------------------------------------------
(* Objects *)

\* a property bag maps keys to values; {} has no key
EmptyBag == [k \in {} |-> [s |-> ""]]

\* a string-valued property
Str(s) == [s |-> s]

\* bag[key] = val
SetKey(bag, key, val) ==
    [k \in DOMAIN bag \cup {key} |-> IF k = key THEN val ELSE bag[k]]

\* the options argument; given = FALSE is a call without one
Options(studyArea, properties, units) ==
    [given |-> TRUE, studyArea |-> studyArea, properties |-> properties,
     units |-> units]

NoOptions ==
    [given |-> FALSE, studyArea |-> Null, properties |-> Null, units |-> Undefined]

----------------------------------------------------------------------------
(* nearestNeighborAnalysis *)

VarianceCoeffNum == 26136
VarianceCoeffDen == 100000

\* the literal 0.26136
VarianceCoeff == Fin((VarianceCoeffNum * Scale) \div VarianceCoeffDen)

\* the filter left out: every feature, the one at index included
otherFeaturesAll(features, index) == features

\* features.filter(function (f, i) { return i !== index; })
otherFeatures(features, index) ==
    SubSeq(features, 1, index - 1) \o SubSeq(features, index + 1, Len(features))

\* the callback of features.map: the distance from feature `index` to the
\* nearest of the other features
nearestDistance(features, index, units, onEmpty) ==
    LET near == nearestPoint(features[index], otherFeatures(features, index), onEmpty)
    IN  IF near.threw THEN near
        ELSE distance(features[index], near.value, units)

\* a sum that misses values[1]
RECURSIVE reduceSumFromSecond(_, _)
reduceSumFromSecond(values, i) ==
    IF i <= 1 THEN Num(0) ELSE Add(reduceSumFromSecond(values, i - 1), values[i])

\* .reduce(function (sum, value) { return sum + value; }, 0) over values[1..i]
RECURSIVE reduceSum(_, _)
reduceSum(values, i) ==
    IF i = 0 THEN Num(0) ELSE Add(reduceSum(values, i - 1), values[i])

\* a traversal that pushes nothing for a feature that is not a Point
RECURSIVE pushCentroidsOfPoints(_, _)
pushCentroidsOfPoints(visited, i) ==
    IF i = 0 THEN <<>>
    ELSE IF visited[i].type # "Point" THEN pushCentroidsOfPoints(visited, i - 1)
    ELSE Append(pushCentroidsOfPoints(visited, i - 1), centroid(visited[i]))

\* the centroids pushed by the featureEach callback, for visited[1..i]
RECURSIVE pushCentroids(_, _)
pushCentroids(visited, i) ==
    IF i = 0 THEN <<>>
    ELSE Append(pushCentroids(visited, i - 1), centroid(visited[i]))

\* features.map(callback) over features[1..i], stopping at the first throw
RECURSIVE mapNearest(_, _, _, _)
mapNearest(features, i, units, onEmpty) ==
    IF i = 0 THEN <<>>
    ELSE LET before == mapNearest(features, i - 1, units, onEmpty)
         IN  IF Len(before) < i - 1 \/ (i > 1 /\ before[i - 1].threw) THEN before
             ELSE Append(before, nearestDistance(features, i, units, onEmpty))

\* the object stored under properties.nearestNeighborAnalysis
resultObject(units, n, observedMeanDistance, populationDensity) ==
    LET expectedMeanDistance == Div(Num(1), Mul(Num(2), Sqrt(populationDensity)))
        variance == Div(VarianceCoeff, Sqrt(Mul(Num(n), populationDensity)))
    IN  [units |-> units,
         arealUnits |-> <<units, "^2">>,
         observedMeanDistance |-> observedMeanDistance,
         expectedMeanDistance |-> expectedMeanDistance,
         nearestNeighborIndex |-> Div(observedMeanDistance, expectedMeanDistance),
         numberOfPoints |-> n,
         zScore |-> Div(Sub(observedMeanDistance, expectedMeanDistance), variance)]

Thrown(error, made) == [threw |-> TRUE, error |-> error, searches |-> made]
Returned(result, made) == [threw |-> FALSE, result |-> result, searches |-> made]

\* the computation of lines 69-92 on the resolved study-area ring: the result
\* object, or the error of the first collaborator that throws
analyze(dataset, ring, unitsOption, onEmpty) ==
    LET units == OrStr(unitsOption, "kilometers")
        each == featureEach(dataset)
    IN  IF each.threw THEN Thrown(each.error, <<>>)
        ELSE
        LET features == pushCentroids(each.value, Len(each.value))
            n == Len(features)
            mapped == mapNearest(features, n, units, onEmpty)
            last == Len(mapped)
            made == [i \in 1..last |->
                        [target |-> features[i],
                         points |-> otherFeatures(features, i),
                         distance |-> mapped[i]]]
        IN  IF last > 0 /\ mapped[last].threw THEN Thrown(mapped[last].error, made)
            ELSE
            LET values == [i \in 1..n |-> mapped[i].value]
                observedMeanDistance == Div(reduceSum(values, n), Num(n))
                converted == convertArea(area(ring), units)
            IN  IF converted.threw THEN Thrown(converted.error, made)
                ELSE Returned(resultObject(units, n, observedMeanDistance,
                                           Div(Num(n), converted.value)), made)

\* options = options || {}
orEmpty(options) ==
    IF options.given THEN options ELSE Options(Null, Null, Undefined)

\* the bounding-box polygon derived whatever options.studyArea is
resolveStudyAreaDerived(polysNow, dataset, opts) ==
    [heap |-> Append(polysNow, [ring |-> bboxPolygon(bbox(dataset)),
                                properties |-> Null]),
     ref |-> Len(polysNow) + 1]

\* options.studyArea || bboxPolygon(bbox(dataset)): the polygon heap holding the
\* study area, and the reference to it
resolveStudyArea(polysNow, dataset, opts) ==
    IF opts.studyArea # Null THEN [heap |-> polysNow, ref |-> opts.studyArea]
    ELSE [heap |-> Append(polysNow, [ring |-> bboxPolygon(bbox(dataset)),
                                     properties |-> Null]),
          ref |-> Len(polysNow) + 1]

\* a copy of options.properties taken instead of the object itself
resolvePropertiesCopy(bagsNow, opts) ==
    [heap |-> Append(bagsNow, IF opts.properties # Null THEN bagsNow[opts.properties]
                              ELSE EmptyBag),
     ref |-> Len(bagsNow) + 1]

\* options.properties || {}: the bag heap holding the properties object, and
\* the reference to it
resolveProperties(bagsNow, opts) ==
    IF opts.properties # Null THEN [heap |-> bagsNow, ref |-> opts.properties]
    ELSE [heap |-> Append(bagsNow, EmptyBag), ref |-> Len(bagsNow) + 1]

\* the result written to a bag emptied first
writeResultOnly(bag, result) ==
    [k \in {"nearestNeighborAnalysis"} |-> result]

\* properties.nearestNeighborAnalysis = {...}
writeResult(bag, result) == SetKey(bag, "nearestNeighborAnalysis", result)

\* the bag a feature already has is kept
setPropertiesKeep(feature, properties) ==
    IF feature.properties # Null THEN feature
    ELSE [feature EXCEPT !.properties = properties]

\* studyArea.properties = properties
setProperties(feature, properties) == [feature EXCEPT !.properties = properties]

\* the bag heap after the call: line 84 runs only when nothing before it threw
bagsAfter(bagsNow, props, out) ==
    IF out.threw THEN bagsNow
    ELSE [props.heap EXCEPT ![props.ref] = writeResult(@, out.result)]

\* line 93 hoisted above the computation: it runs whether or not a later line throws
polysAfterEarly(polysNow, study, props, out) ==
    [study.heap EXCEPT ![study.ref] = [@ EXCEPT !.properties = props.ref]]

\* the polygon heap after the call: line 93 runs only when nothing before it threw
polysAfter(polysNow, study, props, out) ==
    IF out.threw THEN polysNow
    ELSE [study.heap EXCEPT ![study.ref] = setProperties(@, props.ref)]

\* the entry of the call log
logged(dataset, options, study, props, out) ==
    IF out.threw
    THEN [dataset |-> dataset, options |-> options, threw |-> TRUE,
          error |-> out.error, returned |-> Null, properties |-> Null,
          result |-> <<>>]
    ELSE [dataset |-> dataset, options |-> options, threw |-> FALSE,
          error |-> "", returned |-> study.ref, properties |-> props.ref,
          result |-> out.result]

\* One call nearestNeighborAnalysis(dataset, options). The bounding-box polygon
\* and the {} bag of lines 67-68 stay in the heap only when the call returns:
\* after a throw nothing refers to them.
nearestNeighborAnalysis(dataset, options) ==
    \E opts \in {orEmpty(options)} :
    \E study \in {resolveStudyArea(polys, dataset, opts)} :
    \E props \in {resolveProperties(bags, opts)} :
    \E out \in {analyze(dataset, study.heap[study.ref].ring, opts.units, emptySearch)} :
        /\ searches' = out.searches
        /\ bags' = bagsAfter(bags, props, out)
        /\ polys' = polysAfter(polys, study, props, out)
        /\ calls' = Append(calls, logged(dataset, options, study, props, out))
        /\ UNCHANGED emptySearch

----------------------------------------------------------------------------
(* The caller *)

\* the units strings a caller passes: none, a known unit, an unknown one
UnitsGiven == {Undefined, "miles", "bogus"}

\* the caller's bags: two to pass as options.properties, one owned by a polygon
CallerBags ==
    << [k \in {"foo"} |-> Str("bar")],
       [k \in {"foo", "id"} |-> IF k = "foo" THEN Str("baz") ELSE Str("7")],
       [k \in {"name"} |-> Str("downtown")] >>

\* the caller's polygons: one of positive area, one of no area
CallerPolys ==
    << [ring |-> Rect(Num(0), Num(0), Num(2), Num(2)), properties |-> 3],
       [ring |-> Rect(Num(0), Num(0), Num(2), Num(0)), properties |-> Null] >>

Init ==
    /\ bags = CallerBags
    /\ polys = CallerPolys
    /\ calls = <<>>
    /\ searches = <<>>
    /\ emptySearch \in {"throws", "NaN"}

\* a session: the caller makes up to MaxCalls calls on its objects
SessionDatasets ==
    {NullDataset, BareGeometry,
     FeatureCollectionOf(<<PointGeom(<<0, 0>>)>>),
     FeatureCollectionOf(<<PointGeom(<<0, 0>>), PointGeom(<<1, 1>>)>>)}

SessionOptions ==
    {NoOptions} \cup
    {Options(a, b, u) : a \in {Null, 1}, b \in {Null, 1, 2}, u \in {Undefined, "bogus"}}

Next ==
    /\ Len(calls) < MaxCalls
    /\ \E dataset \in SessionDatasets, options \in SessionOptions :
          nearestNeighborAnalysis(dataset, options)

Spec == Init /\ [][Next]_vars

\* one call on any dataset of up to MaxN features
Datasets ==
    {NullDataset, BareGeometry}
    \cup {FeatureCollectionOf(fs) : fs \in SeqsUpTo(FeaturePool, MaxN)}

CalcOptions ==
    {NoOptions} \cup
    {Options(a, Null, u) : a \in {Null, 1, 2}, u \in UnitsGiven}

NextCalc ==
    /\ Len(calls) < 1
    /\ \E dataset \in Datasets, options \in CalcOptions :
          nearestNeighborAnalysis(dataset, options)

SpecCalc == Init /\ [][NextCalc]_vars

\* repeated calls on degenerate inputs: no feature, one feature, no area
RepeatDatasets ==
    {FeatureCollectionOf(fs) :
        fs \in {<<>>,
                <<PointGeom(<<0, 0>>)>>,
                <<LineGeom(<<0, 0>>, <<2, 0>>)>>,
                <<PointGeom(<<0, 0>>), PointGeom(<<0, 0>>)>>,
                <<PointGeom(<<0, 0>>), PointGeom(<<1, 0>>)>>,
                <<PointGeom(<<0, 0>>), PointGeom(<<1, 1>>)>>}}

RepeatOptions ==
    {Options(a, Null, u) : a \in {Null, 1, 2}, u \in {Undefined, "bogus"}}

NextRepeat ==
    /\ Len(calls) < MaxCalls
    /\ \E dataset \in RepeatDatasets, options \in RepeatOptions :
          nearestNeighborAnalysis(dataset, options)

SpecRepeat == Init /\ [][NextRepeat]_vars

----------------------------------------------------------------------------
(* Reading the log and the heap *)

Called == Len(calls) > 0
Last == calls[Len(calls)]

IsCollection(dataset) == dataset.type = "FeatureCollection"
CountOf(dataset) == Len(dataset.features)

\* the units a call resolves: its option, or the default
UnitsOf(c) == IF c.options.units = Undefined THEN "kilometers" ELSE c.options.units

\* the property bag the feature returned by the last call now carries
LastBag == bags[polys[Last.returned].properties]

\* the analysis result read through the feature returned by the last call
LastResult == LastBag["nearestNeighborAnalysis"]

\* the measured area of the study area of a call that returned
MeasuredArea(c) == area(polys[c.returned].ring)

ResultFields ==
    {"units", "arealUnits", "observedMeanDistance", "expectedMeanDistance",
     "nearestNeighborIndex", "numberOfPoints", "zScore"}

AllFinite(r) ==
    /\ IsFinite(r.observedMeanDistance)
    /\ IsFinite(r.expectedMeanDistance)
    /\ IsFinite(r.nearestNeighborIndex)
    /\ IsFinite(r.zScore)

----------------------------------------------------------------------------
(* C1 *)

\* C1: a call that returns, on a dataset of n >= 2 features with a study area
\* of positive measured area, reports numberOfPoints = n, the number of
\* features of the input dataset.
C1_NumberOfPoints ==
    (/\ Called
     /\ ~Last.threw
     /\ IsCollection(Last.dataset)
     /\ CountOf(Last.dataset) >= 2
     /\ IsFinite(MeasuredArea(Last))
     /\ MeasuredArea(Last).v > 0)
    => LastResult.numberOfPoints = CountOf(Last.dataset)

\* a returned call on three or more features, one of them a line, one repeated
C1_Witness ==
    /\ Called
    /\ ~Last.threw
    /\ IsCollection(Last.dataset)
    /\ CountOf(Last.dataset) >= 3
    /\ Last.dataset.features[1].type = "LineString"
    /\ Last.dataset.features[2] = Last.dataset.features[3]
    /\ IsFinite(MeasuredArea(Last))
    /\ MeasuredArea(Last).v > 0
    /\ LastResult.numberOfPoints = CountOf(Last.dataset)

----------------------------------------------------------------------------
(* C2 *)

\* C2: the i-th nearest-point search of a call has centroid i as its target
\* and, as its collection, the centroids at all other indices: n - 1 of them,
\* in order. A nearest distance is 0 only when the centroid at another index
\* has the same coordinates.
C2_SelfExclusion ==
    (Called /\ IsCollection(Last.dataset)) =>
        LET fs == Last.dataset.features
            n == Len(fs)
        IN  /\ Len(searches) <= n
            /\ ~Last.threw => Len(searches) = n
            /\ \A i \in 1..Len(searches) :
                /\ searches[i].target = centroid(fs[i])
                /\ Len(searches[i].points) = n - 1
                /\ \A j \in 1..(n - 1) :
                      searches[i].points[j] = centroid(fs[IF j < i THEN j ELSE j + 1])
                /\ (~searches[i].distance.threw /\ searches[i].distance.value = Fin(0))
                   => \E j \in (1..n) \ {i} : centroid(fs[j]) = centroid(fs[i])

\* a returned call in which a point and a line share a centroid (distance 0)
\* and another feature has its nearest neighbour at a positive distance
C2_Witness ==
    /\ Called
    /\ ~Last.threw
    /\ Len(searches) >= 3
    /\ \E i, j \in 1..Len(searches) :
          /\ searches[i].distance.value = Fin(0)
          /\ Last.dataset.features[i].type = "LineString"
          /\ IsFinite(searches[j].distance.value)
          /\ searches[j].distance.value.v > 0

----------------------------------------------------------------------------
(* C3 *)

\* the least distance, in units, from centroid i to a centroid at another index
NearestOf(fs, i, units) ==
    MinOf({(Length(centroid(fs[i]), centroid(fs[j])) * LengthFactor(units)) \div 1000 :
              j \in (1..Len(fs)) \ {i}})

RECURSIVE SumOfNearest(_, _, _)
SumOfNearest(fs, i, units) ==
    IF i = 0 THEN 0 ELSE NearestOf(fs, i, units) + SumOfNearest(fs, i - 1, units)

\* the four corners of the unit square, in any order
IsUnitSquare(fs) ==
    Len(fs) = 4 /\ {fs[i] : i \in 1..4} = {PointGeom(p) : p \in Positions}

\* C3: for n >= 2, observedMeanDistance is the arithmetic mean over the n
\* features of the least distance to a feature at another index; for the four
\* corners of a square of side 1, in kilometers, it is exactly 1.
C3_ObservedMean ==
    (/\ Called
     /\ ~Last.threw
     /\ IsCollection(Last.dataset)
     /\ CountOf(Last.dataset) >= 2)
    => LET fs == Last.dataset.features
       IN  /\ LastResult.observedMeanDistance
                = Fin(SumOfNearest(fs, Len(fs), UnitsOf(Last)) \div Len(fs))
           /\ (IsUnitSquare(fs) /\ UnitsOf(Last) = "kilometers")
              => LastResult.observedMeanDistance = Num(1)

\* a returned call on the unit square, its corners not in ring order
C3_Witness ==
    /\ Called
    /\ ~Last.threw
    /\ IsCollection(Last.dataset)
    /\ IsUnitSquare(Last.dataset.features)
    /\ Last.dataset.features[1] = PointGeom(<<1, 1>>)
    /\ Last.dataset.features[2] = PointGeom(<<0, 0>>)
    /\ UnitsOf(Last) = "kilometers"
    /\ LastResult.observedMeanDistance = Num(1)

----------------------------------------------------------------------------
(* C4 *)

\* C4: a call given options.studyArea returns that very polygon, its ring
\* unchanged; a call given none returns a new polygon whose ring is the
\* bounding box of the dataset. No call changes the ring of a caller's polygon.
C4_StudyAreaReturned ==
    /\ \A p \in 1..Len(CallerPolys) : polys[p].ring = CallerPolys[p].ring
    /\ (Called /\ ~Last.threw) =>
          IF Last.options.studyArea # Null
          THEN Last.returned = Last.options.studyArea
          ELSE /\ Last.returned = Len(polys)
               /\ Last.returned > Len(CallerPolys)
               /\ \A i \in 1..(Len(calls) - 1) : calls[i].returned # Last.returned
               /\ polys[Last.returned].ring = bboxPolygon(bbox(Last.dataset))

\* a call that returned the caller's polygon with a new bag, then a call that
\* returned a derived polygon
C4_Witness ==
    /\ Len(calls) = 2
    /\ ~calls[1].threw
    /\ calls[1].options.studyArea = 1
    /\ calls[1].returned = 1
    /\ polys[1].properties # CallerPolys[1].properties
    /\ ~calls[2].threw
    /\ calls[2].options.studyArea = Null
    /\ calls[2].returned = 3

----------------------------------------------------------------------------
(* C5 *)

\* C5: after a call given options.properties returns, the returned feature's
\* bag holds every key of the caller's bag other than nearestNeighborAnalysis
\* with its value unchanged, and under nearestNeighborAnalysis the result of
\* the call, an object of exactly the seven result fields.
C5_PropertiesKept ==
    (Called /\ ~Last.threw /\ Last.options.properties # Null) =>
        LET given == CallerBags[Last.options.properties]
        IN  /\ \A k \in DOMAIN given \ {"nearestNeighborAnalysis"} :
                  k \in DOMAIN LastBag /\ LastBag[k] = given[k]
            /\ "nearestNeighborAnalysis" \in DOMAIN LastBag
            /\ DOMAIN LastResult = ResultFields
            /\ LastResult = Last.result

\* {foo: "bar"} passed and returned with the result beside foo
C5_Witness ==
    /\ Called
    /\ ~Last.threw
    /\ Last.options.properties = 1
    /\ LastBag["foo"] = Str("bar")
    /\ LastResult.numberOfPoints = 2

----------------------------------------------------------------------------
(* C6 *)

\* what the collaborators throw
CollaboratorErrors ==
    {"TypeError: cannot read property of null", "geojson is required",
     "units is invalid", "area must be a positive number", "invalid final units"}

\* C6: a call that throws leaves every bag and every polygon as it was, and
\* what it throws is the collaborator's error; a call with an unknown units
\* string throws, and on two or more features it throws the error of distance.
C6_NoPartialResults ==
    [][(Len(calls') = Len(calls) + 1) =>
          LET c == calls'[Len(calls')]
          IN  /\ c.threw => /\ bags' = bags
                            /\ polys' = polys
                            /\ c.error \in CollaboratorErrors
              /\ c.options.units = "bogus" => c.threw
              /\ (/\ c.options.units = "bogus"
                  /\ IsCollection(c.dataset)
                  /\ CountOf(c.dataset) >= 2) => c.error = "units is invalid"]_vars

\* after a call that returned, a call on the same objects with an unknown
\* units string: it threw the error of distance
C6_Witness ==
    /\ Len(calls) = 2
    /\ ~calls[1].threw
    /\ calls[2].threw
    /\ calls[2].options.units = "bogus"
    /\ calls[2].options.studyArea = 1
    /\ calls[2].options.properties = 2
    /\ calls[2].error = "units is invalid"

----------------------------------------------------------------------------
(* C7 *)

\* C7: a call on no feature, on one feature, or with a study area of zero
\* measured area throws or returns a result in which observedMeanDistance,
\* expectedMeanDistance, nearestNeighborIndex and zScore are not all finite;
\* and two calls with the same dataset and options end the same way.
C7_Degenerate ==
    \A i \in 1..Len(calls) :
        LET c == calls[i]
        IN  /\ (/\ ~c.threw
                /\ \/ CountOf(c.dataset) <= 1
                   \/ MeasuredArea(c) = Fin(0))
               => ~AllFinite(c.result)
            /\ \A j \in 1..Len(calls) :
                  (calls[j].dataset = c.dataset /\ calls[j].options = c.options)
                  => /\ calls[j].threw = c.threw
                     /\ calls[j].error = c.error
                     /\ ~c.threw => calls[j].result = c.result

\* an empty dataset returned with NaN, then two features on a study area of
\* no area returned with an infinite index
C7_Witness ==
    /\ Len(calls) = 2
    /\ ~calls[1].threw
    /\ CountOf(calls[1].dataset) = 0
    /\ IsNaN(calls[1].result.observedMeanDistance)
    /\ ~calls[2].threw
    /\ CountOf(calls[2].dataset) = 2
    /\ MeasuredArea(calls[2]) = Fin(0)
    /\ IsFinite(calls[2].result.observedMeanDistance)
    /\ calls[2].result.nearestNeighborIndex = PosInf

----------------------------------------------------------------------------
(* C8 *)

\* C8: a call whose dataset is null or is not a feature collection throws,
\* whether or not options.studyArea is given.
C8_InvalidInputThrows ==
    \A i \in 1..Len(calls) : ~IsCollection(calls[i].dataset) => calls[i].threw

----------------------------------------------------------------------------
(* C9 *)

\* the result of the latest call that returned
RECURSIVE LatestResult(_)
LatestResult(i) == IF ~calls[i].threw THEN calls[i].result ELSE LatestResult(i - 1)

ReturnedCalls == {i \in 1..Len(calls) : ~calls[i].threw}

\* C9: a call given options.properties returns a feature whose properties is
\* that very object; while every call passes the same object, every feature
\* returned so far shows the result of the latest call; a call given no
\* options.properties makes a bag of its own, which keeps that call's result
\* whatever calls follow.
C9_Aliasing ==
    /\ (Called /\ ~Last.threw /\ Last.options.properties # Null)
       => polys[Last.returned].properties = Last.options.properties
    /\ (/\ ReturnedCalls # {}
        /\ \E b \in 1..Len(CallerBags) :
              \A i \in ReturnedCalls : calls[i].options.properties = b)
       => \A i \in ReturnedCalls :
             bags[polys[calls[i].returned].properties]["nearestNeighborAnalysis"]
                = LatestResult(Len(calls))
    /\ \A i \in ReturnedCalls :
          calls[i].options.properties = Null =>
              /\ calls[i].properties > Len(CallerBags)
              /\ \A j \in ReturnedCalls \ {i} : calls[j].properties # calls[i].properties
              /\ bags[calls[i].properties]["nearestNeighborAnalysis"] = calls[i].result

\* two calls passed the same bag and returned different features with
\* different results: the first feature shows the second result
C9_Witness ==
    /\ Len(calls) = 2
    /\ ~calls[1].threw
    /\ ~calls[2].threw
    /\ calls[1].options.properties = 1
    /\ calls[2].options.properties = 1
    /\ calls[1].returned # calls[2].returned
    /\ calls[1].result # calls[2].result
    /\ bags[polys[calls[1].returned].properties]["nearestNeighborAnalysis"]
          = calls[2].result

----------------------------------------------------------------------------
(* C10 *)

\* C10: after a call returns, the keys of the returned feature's bag are the
\* keys of options.properties (none when it was not given) and
\* nearestNeighborAnalysis: what the study area carried before is not merged.
C10_BagReplaced ==
    (Called /\ ~Last.threw) =>
        DOMAIN LastBag =
            (IF Last.options.properties # Null
             THEN DOMAIN CallerBags[Last.options.properties] ELSE {})
            \cup {"nearestNeighborAnalysis"}

\* the caller's polygon, which carried {name: "downtown"}, returned with
\* {foo: "bar"} and the result only
C10_Witness ==
    /\ Len(calls) = 1
    /\ ~Last.threw
    /\ Last.options.studyArea = 1
    /\ Last.options.properties = 1
    /\ "name" \in DOMAIN CallerBags[CallerPolys[1].properties]
    /\ "name" \notin DOMAIN LastBag
    /\ "foo" \in DOMAIN LastBag

====
